---- MODULE Spec2Model ----
(***************************************************************************)
(* Document management backend: document records, backing files and        *)
(* single-use download tokens, with the three-layer error translation      *)
(* (RepoError -> ServiceError -> HttpError -> status).                     *)
(*                                                                         *)
(* Every controller operation except downloadDocumentByToken is one        *)
(* action.  downloadDocumentByToken is one action per storage / file       *)
(* system call it awaits, so that several requests interleave between      *)
(* those calls.                                                            *)
(*                                                                         *)
(* Instants are natural numbers; toISOString() renders instants in one     *)
(* fixed-width UTC format, so the string comparison of the code orders     *)
(* them as the numbers do.                                                 *)
(***************************************************************************)
EXTENDS Integers, Sequences, FiniteSets, TLC

\* ---------------------------------------------------------------- bounds
MaxDocs == 1
MaxTokens == 1
MaxTime == 2
NumClients == 2
MaxStored == 2
MaxTags == 2
MaxLinks == 2
\* DOWNLOAD_LINK_EXPIRY_MINUTES of the environment (15 when unset), in
\* clock ticks: small, so that a token expires within MaxTime.
downloadLinkExpiryMinutes == 1

\* ------------------------------------------------------- configuration
maxFileSize == 10485760
BytesPerMB == 1048576

\* ------------------------------------------------------------- inputs
Clients == 1..NumClients
DocIds == 1..(MaxDocs + 1)
TokenStrings == {"tokA", "tokB"}
MimeTypes == {"application/pdf", "text/plain"}
FileSizes == {1024, maxFileSize + 1}
\* A tag is a string, here a sequence of characters.
TagLists == {<<>>, << <<"A", "b">> >>}
NoTags == << <<"undefined">> >>
TagInputs == TagLists \cup {NoTags}

NULL == -1
NullDoc == [id |-> 0]
NullToken == [id |-> 0]

VARIABLES documents, nextDocId, files, downloadTokens, now, calls, history, last

vars == <<documents, nextDocId, files, downloadTokens, now, calls, history, last>>

\* --------------------------------------------------------- error layers
DbErrors == {"DbConnectionError", "DbTimeoutError", "DbConstraintViolation", "DbUnknown"}
NoFault == "none"

RepoError(tag, token) ==
    [_tag |-> tag, token |-> token, message |-> <<"db", tag>>]

\* mapRepoErrorToServiceError with the timeout case fallen through to the
\* unknown errors.
mapRepoErrorTimeoutUnknown(repoError, operation) ==
    CASE repoError._tag = "TokenNotFound" ->
            [_tag |-> "DownloadTokenInvalid", token |-> repoError.token]
      [] repoError._tag = "TokenExpired" ->
            [_tag |-> "DownloadTokenExpired", token |-> repoError.token]
      [] repoError._tag = "DbConnectionError" ->
            [_tag |-> "ServiceUnavailable", operation |-> operation]
      [] repoError._tag \in {"DbTimeoutError", "DbConstraintViolation", "DbUnknown"} ->
            [_tag |-> "ServiceUnknown", operation |-> operation,
             message |-> repoError.message]

mapRepoErrorToServiceError(repoError, operation) ==
    CASE repoError._tag = "TokenNotFound" ->
            [_tag |-> "DownloadTokenInvalid", token |-> repoError.token]
      [] repoError._tag = "TokenExpired" ->
            [_tag |-> "DownloadTokenExpired", token |-> repoError.token]
      [] repoError._tag \in {"DbConnectionError", "DbTimeoutError"} ->
            [_tag |-> "ServiceUnavailable", operation |-> operation]
      [] repoError._tag \in {"DbConstraintViolation", "DbUnknown"} ->
            [_tag |-> "ServiceUnknown", operation |-> operation,
             message |-> repoError.message]

\* The message of Unavailable with the failing operation appended.
unavailableMessageWithOperation(serviceError) ==
    <<"Service temporarily unavailable", serviceError.operation>>

\* The message of the Unavailable error: a fixed text, serviceError.operation
\* is not read.
unavailableMessage(serviceError) == <<"Service temporarily unavailable">>

mapServiceErrorToHttpError(serviceError) ==
    CASE serviceError._tag = "DocumentNotFound" ->
            [_tag |-> "NotFound",
             message |-> <<"Document with ID", serviceError.documentId, "not found">>]
      [] serviceError._tag = "FileNotFound" ->
            [_tag |-> "NotFound", message |-> <<"File not found:", serviceError.filePath>>]
      [] serviceError._tag = "InvalidFileType" ->
            [_tag |-> "BadRequest", message |-> serviceError.message]
      [] serviceError._tag = "FileTooLarge" ->
            [_tag |-> "BadRequest",
             message |-> <<"File size", serviceError.actualSize,
                           "exceeds maximum", serviceError.maxSize>>]
      [] serviceError._tag = "InvalidSearchTags" ->
            [_tag |-> "BadRequest", message |-> serviceError.message]
      [] serviceError._tag = "DownloadTokenExpired" ->
            [_tag |-> "NotFound", message |-> <<"Download token has expired">>]
      [] serviceError._tag = "DownloadTokenInvalid" ->
            [_tag |-> "NotFound", message |-> <<"Invalid download token">>]
      [] serviceError._tag = "DownloadTokenAlreadyUsed" ->
            [_tag |-> "Conflict", message |-> <<"Download token has already been used">>]
      [] serviceError._tag = "ServiceUnavailable" ->
            [_tag |-> "Unavailable", message |-> unavailableMessage(serviceError)]
      [] serviceError._tag = "ServiceUnknown" ->
            [_tag |-> "InternalServerError", message |-> serviceError.message]

\* httpErrorToStatus with Conflict answered as a bad request.
httpErrorToStatusNoConflict(error) ==
    CASE error._tag \in {"BadRequest", "Conflict"} -> 400
      [] error._tag = "NotFound" -> 404
      [] error._tag = "Unavailable" -> 503
      [] error._tag = "InternalServerError" -> 500

httpErrorToStatus(error) ==
    CASE error._tag = "BadRequest" -> 400
      [] error._tag = "NotFound" -> 404
      [] error._tag = "Conflict" -> 409
      [] error._tag = "Unavailable" -> 503
      [] error._tag = "InternalServerError" -> 500

\* ------------------------------------------------ controller outcomes
\* Effect.match, onFailure branch: the typed failure rendered as a status.
onFailure(serviceError) ==
    [status |-> httpErrorToStatus(mapServiceErrorToHttpError(serviceError)),
     tag |-> serviceError._tag,
     message |-> mapServiceErrorToHttpError(serviceError).message,
     document |-> NullDoc]

\* Effect.match, onSuccess branch.
onSuccess(status, document) ==
    [status |-> status, tag |-> "ok", message |-> <<>>, document |-> document]

\* An exception thrown inside a map/flatMap/match callback is a defect:
\* mapError and match do not see it and Effect.runPromise rejects.
Defect ==
    [status |-> 0, tag |-> "defect", message |-> <<"TypeError">>, document |-> NullDoc]

NoResult ==
    [status |-> 0, tag |-> "none", message |-> <<>>, document |-> NullDoc]

\* ------------------------------------------------------ serialisation
\* The text of the metadata_tags column: the JSON text of a list of strings
\* ("list"), a JSON text that is not an array ("scalar", the text 5), a text
\* that is no JSON ("text"), the empty string ("empty") or SQL NULL ("null").
NullText == [kind |-> "null", tags |-> <<>>]
EmptyText == [kind |-> "empty", tags |-> <<>>]
NotJSON == [kind |-> "text", tags |-> <<>>]
JSONScalar == [kind |-> "scalar", tags |-> <<>>]

\* The value JSON.parse returns for the text 5: a number, not an array.  The
\* character 5, which no tag holds, keeps it apart from every tag list.
ScalarValue == << <<"5">> >>

\* The update data {}: no metadataTags key.
NoData == [kind |-> "undefined", tags |-> <<>>]

\* JSON.stringify of a tag list.
JSONstringify(tags) == [kind |-> "list", tags |-> tags]

\* JSON.parse throws a SyntaxError on a text that is no JSON, the empty
\* string included.
JSONparseThrows(text) == text.kind \in {"text", "empty"}

\* JSON.parse of a JSON text.
JSONparse(text) == IF text.kind = "list" THEN text.tags ELSE ScalarValue

\* safeParseJSON: JSON.parse inside try/catch.
safeParseJSON(input) ==
    IF JSONparseThrows(input) THEN [ok |-> FALSE, value |-> <<>>]
    ELSE [ok |-> TRUE, value |-> JSONparse(input)]

\* `!doc.metadataTags`: null and the empty string are falsy.
falsy(text) == text.kind \in {"null", "empty"}

\* ------------------------------------------------------------ state
\* A download request in flight: where it stands, the token row and the
\* document it read.
IdleCall == [pc |-> "idle", token |-> "", row |-> NullToken, doc |-> NullDoc]

\* last: the response the step just taken produced, if it produced one.
\* history: per token row, how many downloads of it returned success (0, 1,
\* or 2 for more) and whether its document existed when it was issued.
NoResponse == [op |-> "none", arg |-> 0, res |-> NoResult]

Init ==
    /\ documents = <<>>
    /\ nextDocId = 1
    /\ files = <<>>
    /\ downloadTokens = <<>>
    /\ now = 0
    /\ calls = [c \in Clients |-> IdleCall]
    /\ history = <<>>
    /\ last = NoResponse

\* -------------------------------------------------------- repositories
\* DocumentRepository.findById: rows[0] || null.
findById(id) == IF id \in DOMAIN documents THEN documents[id] ELSE NullDoc

\* update whose set clause drops the data: only updatedAt is written.
updatedRowDropsData(id, updateData) == [documents[id] EXCEPT !.updatedAt = now]

\* The row DocumentRepository.update returns: data merged over the stored
\* row, updatedAt always set to the current instant.
updatedRow(id, updateData) ==
    IF updateData = NoData
    THEN [documents[id] EXCEPT !.updatedAt = now]
    ELSE [documents[id] EXCEPT !.metadataTags = updateData, !.updatedAt = now]

\* The table after DocumentRepository.update(id, data).
updateDocuments(id, updateData) ==
    IF id \in DOMAIN documents
    THEN [documents EXCEPT ![id] = updatedRow(id, updateData)]
    ELSE documents

\* The table after DocumentRepository.delete(id).
deleteDocuments(id) == [i \in DOMAIN documents \ {id} |-> documents[i]]

\* The rows `where token = token limit 1` selects.
tokenRows(token) == {i \in DOMAIN downloadTokens : downloadTokens[i].token = token}

\* findValidToken with the expiry test off by one: a token still passes at
\* the instant expires_at.
findValidTokenLate(token) ==
    IF tokenRows(token) = {}
    THEN [ok |-> FALSE, error |-> RepoError("TokenNotFound", token), row |-> NullToken]
    ELSE LET tokenRecord == downloadTokens[CHOOSE i \in tokenRows(token) : TRUE]
         IN  IF tokenRecord.expiresAt < now
             THEN [ok |-> FALSE, error |-> RepoError("TokenExpired", token), row |-> NullToken]
             ELSE [ok |-> TRUE, error |-> RepoError("none", token), row |-> tokenRecord]

\* DownloadTokenRepository.findValidToken, after the select returned.
findValidToken(token) ==
    IF tokenRows(token) = {}
    THEN [ok |-> FALSE, error |-> RepoError("TokenNotFound", token), row |-> NullToken]
    ELSE LET tokenRecord == downloadTokens[CHOOSE i \in tokenRows(token) : TRUE]
         IN  IF tokenRecord.expiresAt <= now
             THEN [ok |-> FALSE, error |-> RepoError("TokenExpired", token), row |-> NullToken]
             ELSE [ok |-> TRUE, error |-> RepoError("none", token), row |-> tokenRecord]

\* markAsUsed whose update matches no row: used_at is never written.
markAsUsedLost(id) == downloadTokens

\* The table after DownloadTokenRepository.markAsUsed(id).
markAsUsed(id) ==
    [i \in DOMAIN downloadTokens |->
        IF downloadTokens[i].id = id
        THEN [downloadTokens[i] EXCEPT !.usedAt = now]
        ELSE downloadTokens[i]]

\* ---------------------------------------------------------- file utils
\* validateFile without the mime type test.
validateFileAnyType(file) ==
    IF file.size > maxFileSize THEN "File size exceeds maximum allowed size"
    ELSE "ok"

\* FileUtils.validateFile: "ok" or the message of the Error it fails with.
validateFile(file) ==
    IF file.type # "application/pdf" THEN "Only PDF files are allowed"
    ELSE IF file.size > maxFileSize THEN "File size exceeds maximum allowed size"
    ELSE "ok"

\* createDocument's mapError over validateFile's Error: the first run of
\* digits of the message is maxFileSize / 1024 / 1024.
validationError(file) ==
    IF validateFile(file) = "Only PDF files are allowed"
    THEN [_tag |-> "InvalidFileType", message |-> <<"Only PDF files are allowed">>]
    ELSE [_tag |-> "FileTooLarge", maxSize |-> maxFileSize \div BytesPerMB,
          actualSize |-> file.size]

\* FileUtils.generateFilePath: Date.now() and a random base-36 suffix, a
\* name no stored file bears; here the first name not in use.
FileNames == 1..(MaxDocs + 1)
usedNames == DOMAIN files \cup {documents[i].filePath : i \in DOMAIN documents}
generateFilePath == CHOOSE n \in FileNames \ usedNames :
                        \A m \in FileNames \ usedNames : n <= m

\* saveFileToDisk that reports success and writes nothing.
saveFileLost(file, filePath) == files

\* The disk after FileUtils.saveFileToDisk(file, filePath).
saveFileToDisk(file, filePath) ==
    [p \in DOMAIN files \cup {filePath} |->
        IF p = filePath THEN file.bytes ELSE files[p]]

\* The disk after FileUtils.deleteFileFromDisk(filePath): the file is
\* first overwritten with no bytes and then removed; an exception leaves
\* it untouched ("error") or emptied ("truncated").
FsOutcomes == {"ok", "error", "truncated"}
deleteFileFromDisk(filePath, outcome) ==
    IF filePath \notin DOMAIN files \/ outcome = "error" THEN files
    ELSE IF outcome = "truncated" THEN [files EXCEPT ![filePath] = <<>>]
    ELSE [p \in DOMAIN files \ {filePath} |-> files[p]]

\* `doc.metadataTags ? JSON.parse(doc.metadataTags) : []` throws.
formatThrows(document) ==
    ~falsy(document.metadataTags) /\ JSONparseThrows(document.metadataTags)

\* The formatted document the service returns: tags parsed from the stored
\* text, the empty list for a falsy text.
formatted(document) ==
    [document EXCEPT !.metadataTags = IF falsy(document.metadataTags) THEN <<>>
                                       ELSE JSONparse(document.metadataTags)]

\* ---------------------------------------------------------- operations
Files == [type : MimeTypes, size : FileSizes, name : {"a.pdf"}, bytes : {<<"%PDF">>}]

\* DocumentController.uploadDocument / DocumentService.createDocument.
\* fsFault: "none", "ensureDir" or "write"; dbFault: NoFault or a DbError.
uploadDocument(file, metadataTags, fsFault, dbFault) ==
    /\ validateFile(file) = "ok" => (nextDocId <= MaxDocs /\ FileNames \ usedNames # {})
    /\ LET filePath == generateFilePath
           document == [id |-> nextDocId, filename |-> filePath,
                        originalFilename |-> file.name, filePath |-> filePath,
                        fileSize |-> file.size,
                        metadataTags |-> JSONstringify(IF metadataTags = NoTags
                                                       THEN <<>> ELSE metadataTags),
                        createdAt |-> now, updatedAt |-> now]
       IN  IF validateFile(file) # "ok"
           THEN /\ last' = [op |-> "uploadDocument", arg |-> file,
                            res |-> onFailure(validationError(file))]
                /\ UNCHANGED <<documents, nextDocId, files>>
           ELSE IF fsFault # "none"
           THEN /\ last' = [op |-> "uploadDocument", arg |-> file,
                            res |-> onFailure([_tag |-> "ServiceUnavailable",
                                               operation |-> "createDocument"])]
                /\ UNCHANGED <<documents, nextDocId, files>>
           ELSE IF dbFault # NoFault
           THEN /\ files' = saveFileToDisk(file, filePath)
                /\ last' = [op |-> "uploadDocument", arg |-> file,
                            res |-> onFailure(mapRepoErrorToServiceError(
                                        RepoError(dbFault, ""), "createDocument"))]
                /\ UNCHANGED <<documents, nextDocId>>
           ELSE /\ files' = saveFileToDisk(file, filePath)
                /\ documents' = [i \in DOMAIN documents \cup {nextDocId} |->
                                    IF i = nextDocId THEN document ELSE documents[i]]
                /\ nextDocId' = nextDocId + 1
                /\ last' = [op |-> "uploadDocument", arg |-> file,
                            res |-> onSuccess(201, [document EXCEPT !.metadataTags =
                                        IF metadataTags = NoTags THEN <<>> ELSE metadataTags])]
    /\ UNCHANGED <<downloadTokens, now, calls, history>>

\* DocumentController.updateDocument / DocumentService.updateDocument.
updateDocument(id, metadataTags, dbFault) ==
    /\ LET updateData == IF metadataTags = NoTags THEN NoData
                         ELSE JSONstringify(metadataTags)
       IN  IF dbFault # NoFault
           THEN /\ last' = [op |-> "updateDocument", arg |-> id,
                            res |-> onFailure(mapRepoErrorToServiceError(
                                        RepoError(dbFault, ""), "updateDocument"))]
                /\ UNCHANGED documents
           ELSE /\ documents' = updateDocuments(id, updateData)
                /\ last' = [op |-> "updateDocument", arg |-> id,
                            res |-> IF id \notin DOMAIN documents
                                    THEN Defect
                                    ELSE IF formatThrows(updatedRow(id, updateData))
                                    THEN Defect
                                    ELSE onSuccess(200, formatted(updatedRow(id, updateData)))]
    /\ UNCHANGED <<nextDocId, files, downloadTokens, now, calls, history>>

\* The token table had document_id been declared with a cascading foreign
\* key: the rows of the deleted document go with it.
tokensCascade(id) == SelectSeq(downloadTokens, LAMBDA row : row.documentId # id)

\* The token table after `delete from documents where id = ?`:
\* download_tokens.document_id is a plain integer column, no foreign key
\* and no trigger ties it to documents, and no code deletes token rows.
tokensAfterDelete(id) == downloadTokens

\* The file removal without the catchAll: its failure ends the call.
fileDeletionPropagates(outcome) == outcome # "ok"

\* Whether the file removal ends deleteDocument: catchAll logs a warning
\* and succeeds with undefined, whatever the removal did, so the failure
\* branch of deleteDocument below is never taken.
fileDeletionFails(outcome) == FALSE

\* DocumentController.deleteDocument / DocumentService.deleteDocument.
\* findFault: the findById call; fsOutcome: the file removal; deleteFault:
\* the repository delete.
deleteDocument(id, findFault, fsOutcome, deleteFault) ==
    /\ LET document == findById(id)
       IN  IF findFault # NoFault
           THEN /\ last' = [op |-> "deleteDocument", arg |-> id,
                            res |-> onFailure(mapRepoErrorToServiceError(
                                        RepoError(findFault, ""), "deleteDocument"))]
                /\ UNCHANGED <<documents, files, downloadTokens>>
           ELSE IF document = NullDoc
           THEN /\ last' = [op |-> "deleteDocument", arg |-> id, res |-> Defect]
                /\ UNCHANGED <<documents, files, downloadTokens>>
           ELSE /\ files' = deleteFileFromDisk(document.filePath, fsOutcome)
                /\ IF fileDeletionFails(fsOutcome)
                   THEN /\ last' = [op |-> "deleteDocument", arg |-> id,
                                    res |-> onFailure([_tag |-> "ServiceUnavailable",
                                                       operation |-> "deleteDocument"])]
                        /\ UNCHANGED <<documents, downloadTokens>>
                   ELSE IF deleteFault # NoFault
                   THEN /\ last' = [op |-> "deleteDocument", arg |-> id,
                                    res |-> onFailure(mapRepoErrorToServiceError(
                                                RepoError(deleteFault, ""), "deleteDocument"))]
                        /\ UNCHANGED <<documents, downloadTokens>>
                   ELSE /\ documents' = deleteDocuments(id)
                        /\ downloadTokens' = tokensAfterDelete(id)
                        /\ last' = [op |-> "deleteDocument", arg |-> id,
                                    res |-> onSuccess(200, document)]
    /\ UNCHANGED <<nextDocId, now, calls, history>>

\* The expiry instant computed without the configured lifetime added.
expiryOfNoLifetime(instant) == instant

\* `expiresAt.setMinutes(expiresAt.getMinutes() + expiryMinutes)` on the
\* issuing instant.
expiryOf(instant) == instant + downloadLinkExpiryMinutes

\* The token column without its UNIQUE constraint: no insert is refused.
uniqueNotEnforced(token) == FALSE

\* `token TEXT NOT NULL UNIQUE`: the insert of a token string that a row
\* already bears is refused.
uniqueViolation(token) == tokenRows(token) # {}

\* DocumentController.generateDownloadLink / DocumentService.generateDownloadLink.
\* token: the string generateDownloadToken() drew.
generateDownloadLink(documentId, token, findFault, createFault) ==
    /\ LET document == findById(documentId)
           expiresAt == expiryOf(now)
           downloadToken == [id |-> Len(downloadTokens) + 1, token |-> token,
                             documentId |-> documentId, expiresAt |-> expiresAt,
                             usedAt |-> NULL]
           insertError == IF createFault # NoFault THEN createFault
                          ELSE IF uniqueViolation(token) THEN "DbConstraintViolation"
                          ELSE NoFault
       IN  IF findFault # NoFault
           THEN /\ last' = [op |-> "generateDownloadLink", arg |-> documentId,
                            res |-> onFailure(mapRepoErrorToServiceError(
                                        RepoError(findFault, ""), "generateDownloadLink"))]
                /\ UNCHANGED <<downloadTokens, history>>
           ELSE IF insertError # NoFault
           THEN /\ last' = [op |-> "generateDownloadLink", arg |-> documentId,
                            res |-> onFailure(mapRepoErrorToServiceError(
                                        RepoError(insertError, ""), "generateDownloadLink"))]
                /\ UNCHANGED <<downloadTokens, history>>
           ELSE /\ downloadTokens' = Append(downloadTokens, downloadToken)
                /\ history' = Append(history, [delivered |-> 0,
                                                live |-> document # NullDoc])
                /\ last' = [op |-> "generateDownloadLink", arg |-> documentId,
                            res |-> IF document = NullDoc THEN Defect
                                    ELSE onSuccess(200, document),
                            link |-> [token |-> token, expiresAt |-> downloadToken.expiresAt,
                                      downloadUrl |-> <<"/documents/download/", token>>]]
    /\ UNCHANGED <<documents, nextDocId, files, now, calls>>

\* ------------------------------------------------------ read operations
\* Effect.match, onSuccess branch of the operations that return a list.
onSuccessList(list) ==
    [status |-> 200, tag |-> "ok", message |-> <<>>, document |-> NullDoc,
     documents |-> list]

\* `select * from documents`: the rows in id order.
RECURSIVE rowsFrom(_)
rowsFrom(id) ==
    IF id >= nextDocId THEN <<>>
    ELSE (IF id \in DOMAIN documents THEN <<documents[id]>> ELSE <<>>) \o rowsFrom(id + 1)

findAll == rowsFrom(1)

\* String.prototype.toLowerCase over the characters tags are written in.
lower(char) ==
    CASE char = "A" -> "a"
      [] char = "B" -> "b"
      [] OTHER -> char

toLowerCase(tag) == [i \in DOMAIN tag |-> lower(tag[i])]

\* String.prototype.includes.
includes(string, searchString) ==
    \E i \in 0..(Len(string) - Len(searchString)) :
        SubSeq(string, i + 1, i + Len(searchString)) = searchString

\* The test findByTags makes on a stored tag and a query tag.
tagMatches(docTag, searchTag) ==
    \/ toLowerCase(docTag) = toLowerCase(searchTag)
    \/ includes(toLowerCase(docTag), toLowerCase(searchTag))

\* The filter callback of findByTags, on a row it does not throw on.
keeps(doc, searchTags) ==
    /\ ~falsy(doc.metadataTags)
    /\ safeParseJSON(doc.metadataTags).ok
    /\ \E i \in DOMAIN searchTags, j \in DOMAIN safeParseJSON(doc.metadataTags).value :
          tagMatches(safeParseJSON(doc.metadataTags).value[j], searchTags[i])

\* The filter callback throws on a row whose text parses to a value that
\* is not an array: docTags.some is not a function.
filterThrows(doc) ==
    /\ ~falsy(doc.metadataTags)
    /\ safeParseJSON(doc.metadataTags).ok
    /\ doc.metadataTags.kind # "list"

\* DocumentRepository.findByTags, when the filter does not throw.
findByTags(searchTags) == SelectSeq(findAll, LAMBDA doc : keeps(doc, searchTags))

\* validateSearchTags that accepts every list.
validateSearchTagsAny(searchTags) == "ok"

\* ValidationUtils.validateSearchTags: "ok" or the message of its Error.
validateSearchTags(searchTags) ==
    IF Len(searchTags) = 0 THEN "At least one tag is required for search" ELSE "ok"

\* DocumentController.getAllDocuments / DocumentService.getAllDocuments.
getAllDocuments(dbFault) ==
    /\ last' = [op |-> "getAllDocuments", arg |-> 0, res |->
          IF dbFault # NoFault
          THEN onFailure(mapRepoErrorToServiceError(RepoError(dbFault, ""), "getAllDocuments"))
          ELSE IF \E i \in DOMAIN findAll : formatThrows(findAll[i])
          THEN Defect
          ELSE onSuccessList([i \in DOMAIN findAll |-> formatted(findAll[i])])]
    /\ UNCHANGED <<documents, nextDocId, files, downloadTokens, now, calls, history>>

\* DocumentController.getDocumentById / DocumentService.getDocumentById.
getDocumentById(id, dbFault) ==
    /\ last' = [op |-> "getDocumentById", arg |-> id, res |->
          IF dbFault # NoFault
          THEN onFailure(mapRepoErrorToServiceError(RepoError(dbFault, ""), "getDocumentById"))
          ELSE IF findById(id) = NullDoc
          THEN Defect
          ELSE IF formatThrows(findById(id))
          THEN Defect
          ELSE onSuccess(200, formatted(findById(id)))]
    /\ UNCHANGED <<documents, nextDocId, files, downloadTokens, now, calls, history>>

\* DocumentController.searchDocumentsByTags / DocumentService.searchDocumentsByTags.
searchDocumentsByTags(searchTags, dbFault) ==
    /\ last' = [op |-> "searchDocumentsByTags", arg |-> searchTags, res |->
          IF validateSearchTags(searchTags) # "ok"
          THEN onFailure([_tag |-> "InvalidSearchTags",
                          message |-> <<validateSearchTags(searchTags)>>])
          ELSE IF dbFault # NoFault
          THEN onFailure(mapRepoErrorToServiceError(RepoError(dbFault, ""),
                                                    "searchDocumentsByTags"))
          ELSE IF \E i \in DOMAIN findAll : filterThrows(findAll[i])
          THEN Defect
          ELSE onSuccessList([i \in DOMAIN findByTags(searchTags) |->
                                 formatted(findByTags(searchTags)[i])])]
    /\ UNCHANGED <<documents, nextDocId, files, downloadTokens, now, calls, history>>

\* ----------------------------------------- downloadDocumentByToken steps
downloadSuccess(document) ==
    [status |-> 200, tag |-> "ok", message |-> <<>>, document |-> document,
     filePath |-> document.filePath]

\* The response of the request of client c.
respond(c, token, res) ==
    /\ calls' = [calls EXCEPT ![c] = IdleCall]
    /\ last' = [op |-> "downloadDocumentByToken", arg |-> token, res |-> res]

\* The request of client c goes on to its next call.
proceed(c, call) ==
    /\ calls' = [calls EXCEPT ![c] = call]
    /\ last' = NoResponse

\* tokenGate with the used-at check made first, on the row as stored: a
\* used token is AlreadyUsed even after it expired.
tokenGateUsedFirst(token) ==
    LET found == findValidToken(token)
    IN  IF \E i \in tokenRows(token) : downloadTokens[i].usedAt # NULL
        THEN [pass |-> FALSE, row |-> NullToken,
              error |-> [_tag |-> "DownloadTokenAlreadyUsed", token |-> token]]
        ELSE IF ~found.ok
        THEN [pass |-> FALSE, row |-> NullToken,
              error |-> mapRepoErrorToServiceError(found.error, "downloadDocumentByToken")]
        ELSE [pass |-> TRUE, row |-> found.row,
              error |-> [_tag |-> "none", token |-> token]]

\* tokenGate without the used-at check: any row findValidToken returns goes
\* on to the document lookup.
tokenGateSkipsUsed(token) ==
    LET found == findValidToken(token)
    IN  IF ~found.ok
        THEN [pass |-> FALSE, row |-> NullToken,
              error |-> mapRepoErrorToServiceError(found.error, "downloadDocumentByToken")]
        ELSE [pass |-> TRUE, row |-> found.row,
              error |-> [_tag |-> "none", token |-> token]]

\* The outcome of the token lookup and of the used-at check that follows it:
\* the row to go on with, or the typed failure.
tokenGate(token) ==
    LET found == findValidToken(token)
    IN  IF ~found.ok
        THEN [pass |-> FALSE, row |-> NullToken,
              error |-> mapRepoErrorToServiceError(found.error, "downloadDocumentByToken")]
        ELSE IF found.row.usedAt # NULL
        THEN [pass |-> FALSE, row |-> NullToken,
              error |-> [_tag |-> "DownloadTokenAlreadyUsed", token |-> token]]
        ELSE [pass |-> TRUE, row |-> found.row,
              error |-> [_tag |-> "none", token |-> token]]

\* A request arrives: findValidToken, then the used-at check.
DownloadFindValidToken(c, token, dbFault) ==
    /\ calls[c].pc = "idle"
    /\ LET gate == tokenGate(token)
       IN  IF dbFault # NoFault
           THEN respond(c, token, onFailure(mapRepoErrorToServiceError(
                            RepoError(dbFault, token), "downloadDocumentByToken")))
           ELSE IF ~gate.pass
           THEN respond(c, token, onFailure(gate.error))
           ELSE proceed(c, [IdleCall EXCEPT !.pc = "findById", !.token = token,
                                            !.row = gate.row])
    /\ UNCHANGED <<documents, nextDocId, files, downloadTokens, now, history>>

\* DocumentRepository.findById(downloadToken.documentId); the callback that
\* follows reads document.filePath.
DownloadFindById(c, dbFault) ==
    /\ calls[c].pc = "findById"
    /\ LET document == findById(calls[c].row.documentId)
       IN  IF dbFault # NoFault
           THEN respond(c, calls[c].token, onFailure(mapRepoErrorToServiceError(
                            RepoError(dbFault, ""), "downloadDocumentByToken")))
           ELSE IF document = NullDoc
           THEN respond(c, calls[c].token, Defect)
           ELSE proceed(c, [calls[c] EXCEPT !.pc = "checkFileExists", !.doc = document])
    /\ UNCHANGED <<documents, nextDocId, files, downloadTokens, now, history>>

\* DownloadCheckFileExists with markAsUsed moved before the file check: the
\* token is used whether or not the file is found.
DownloadCheckFileExistsMarksFirst(c, fsFault) ==
    /\ calls[c].pc = "checkFileExists"
    /\ downloadTokens' = markAsUsed(calls[c].row.id)
    /\ IF fsFault \/ calls[c].doc.filePath \notin DOMAIN files
       THEN respond(c, calls[c].token,
                    onFailure([_tag |-> "FileNotFound", filePath |-> calls[c].doc.filePath]))
       ELSE proceed(c, [calls[c] EXCEPT !.pc = "markAsUsed"])
    /\ UNCHANGED <<documents, nextDocId, files, now, history>>

\* FileUtils.checkFileExists(document.filePath); any Error it fails with
\* becomes FileNotFound.
DownloadCheckFileExists(c, fsFault) ==
    /\ calls[c].pc = "checkFileExists"
    /\ IF fsFault \/ calls[c].doc.filePath \notin DOMAIN files
       THEN respond(c, calls[c].token,
                    onFailure([_tag |-> "FileNotFound", filePath |-> calls[c].doc.filePath]))
       ELSE proceed(c, [calls[c] EXCEPT !.pc = "markAsUsed"])
    /\ UNCHANGED <<documents, nextDocId, files, downloadTokens, now, history>>

\* markFailed without the catchAll: the mapped error is the call's failure.
markFailedPropagates(document, serviceError) == onFailure(serviceError)

\* What the call returns when markAsUsed failed: the error is logged and
\* the call succeeds.
markFailed(document, serviceError) == downloadSuccess(document)

\* DownloadTokenRepository.markAsUsed(downloadToken.id), then the result.
DownloadMarkAsUsed(c, dbFault) ==
    /\ calls[c].pc = "markAsUsed"
    /\ IF dbFault # NoFault
       THEN /\ respond(c, calls[c].token,
                       markFailed(calls[c].doc, mapRepoErrorToServiceError(
                              RepoError(dbFault, ""), "downloadDocumentByToken")))
            /\ UNCHANGED downloadTokens
       ELSE /\ respond(c, calls[c].token, downloadSuccess(calls[c].doc))
            /\ downloadTokens' = markAsUsed(calls[c].row.id)
    /\ history' = [history EXCEPT ![calls[c].row.id].delivered = IF @ < 2 THEN @ + 1 ELSE @]
    /\ UNCHANGED <<documents, nextDocId, files, now>>

\* The clock advances between any two steps.
Tick ==
    /\ now < MaxTime
    /\ now' = now + 1
    /\ last' = NoResponse
    /\ UNCHANGED <<documents, nextDocId, files, downloadTokens, calls, history>>

\* Storage and file system answer every call.
Next ==
    \/ Tick
    \/ \E file \in Files, tags \in TagInputs : uploadDocument(file, tags, "none", NoFault)
    \/ \E id \in DocIds, tags \in TagInputs : updateDocument(id, tags, NoFault)
    \/ \E id \in DocIds : deleteDocument(id, NoFault, "ok", NoFault)
    \/ \E id \in DocIds, token \in TokenStrings :
            /\ Len(downloadTokens) < MaxTokens \/ tokenRows(token) # {}
            /\ generateDownloadLink(id, token, NoFault, NoFault)
    \/ \E c \in Clients, token \in TokenStrings : DownloadFindValidToken(c, token, NoFault)
    \/ \E c \in Clients : DownloadFindById(c, NoFault)
    \/ \E c \in Clients : DownloadCheckFileExists(c, FALSE)
    \/ \E c \in Clients : DownloadMarkAsUsed(c, NoFault)

Spec == Init /\ [][Next]_vars

\* One download request at a time.
SeqNext ==
    \/ Tick
    \/ \E file \in Files, tags \in TagInputs : uploadDocument(file, tags, "none", NoFault)
    \/ \E id \in DocIds, tags \in TagInputs : updateDocument(id, tags, NoFault)
    \/ \E id \in DocIds : deleteDocument(id, NoFault, "ok", NoFault)
    \/ \E id \in DocIds, token \in TokenStrings :
            /\ Len(downloadTokens) < MaxTokens \/ tokenRows(token) # {}
            /\ generateDownloadLink(id, token, NoFault, NoFault)
    \/ \E token \in TokenStrings : DownloadFindValidToken(1, token, NoFault)
    \/ DownloadFindById(1, NoFault)
    \/ DownloadCheckFileExists(1, FALSE)
    \/ DownloadMarkAsUsed(1, NoFault)

SeqSpec == Init /\ [][SeqNext]_vars

\* A storage call may fail with a RepoError of either class that
\* mapRepoErrorToServiceError tells apart; markAsUsed, whose failure is
\* caught, with any RepoError toRepoError produces.  A call made after a
\* failed one is never reached, so the faults of an operation are enumerated
\* up to the first one that ends it.
Faults == {NoFault, "DbConnectionError", "DbUnknown"}
MarkFaults == DbErrors \cup {NoFault}
UploadFaults == {<<fs, db>> \in {"none", "ensureDir", "write"} \X Faults :
                    fs # "none" => db = NoFault}
Uploads == {<<file, f>> \in Files \X UploadFaults :
                validateFile(file) # "ok" => f = <<"none", NoFault>>}
DeleteFaults == {e \in [find : Faults, fs : FsOutcomes, del : Faults] :
                    e.find # NoFault => (e.fs = "ok" /\ e.del = NoFault)}
LinkFaults == {<<f1, f2>> \in Faults \X Faults : f1 # NoFault => f2 = NoFault}

\* One download at a time, any call of which may fail.
DownloadFaultNext ==
    \/ Tick
    \/ \E file \in Files, tags \in TagInputs : uploadDocument(file, tags, "none", NoFault)
    \/ \E id \in DocIds, tags \in TagInputs : updateDocument(id, tags, NoFault)
    \/ \E id \in DocIds : deleteDocument(id, NoFault, "ok", NoFault)
    \/ \E id \in DocIds, token \in TokenStrings :
            /\ Len(downloadTokens) < MaxTokens \/ tokenRows(token) # {}
            /\ generateDownloadLink(id, token, NoFault, NoFault)
    \/ \E token \in TokenStrings, db \in Faults : DownloadFindValidToken(1, token, db)
    \/ \E db \in Faults : DownloadFindById(1, db)
    \/ \E fs \in BOOLEAN : DownloadCheckFileExists(1, fs)
    \/ \E db \in MarkFaults : DownloadMarkAsUsed(1, db)

DownloadFaultSpec == Init /\ [][DownloadFaultNext]_vars

\* Any storage or file system call of a document operation may fail.  No
\* document operation reads a request in flight or a token's used_at, so
\* the downloads are left out.
DocumentFaultNext ==
    \/ Tick
    \/ \E u \in Uploads, tags \in TagInputs : uploadDocument(u[1], tags, u[2][1], u[2][2])
    \/ \E id \in DocIds, tags \in TagInputs, db \in Faults : updateDocument(id, tags, db)
    \/ \E id \in DocIds, e \in DeleteFaults : deleteDocument(id, e.find, e.fs, e.del)
    \/ \E id \in DocIds, token \in TokenStrings, f \in LinkFaults :
            /\ Len(downloadTokens) < MaxTokens \/ tokenRows(token) # {}
            /\ generateDownloadLink(id, token, f[1], f[2])

DocumentFaultSpec == Init /\ [][DocumentFaultNext]_vars

\* The read operations over any content of the documents table: the
\* metadata_tags column is nullable free text, so a row may hold any text.
Tags == {<<>>, <<"a">>, <<"B">>, <<"A", "b">>}
RECURSIVE listsOf(_)
listsOf(n) ==
    IF n = 0 THEN {<<>>}
    ELSE listsOf(n - 1) \cup {Append(l, t) : l \in {x \in listsOf(n - 1) : Len(x) = n - 1},
                                             t \in Tags}
SearchTagLists == listsOf(MaxTags)
StoredTexts == {JSONstringify(l) : l \in listsOf(MaxTags)}
                  \cup {NullText, EmptyText, NotJSON, JSONScalar}

\* The row with the given id and tags text, its file on disk.
storedRow(id, text) ==
    [id |-> id, filename |-> id, originalFilename |-> "a.pdf", filePath |-> id,
     fileSize |-> 1024, metadataTags |-> text, createdAt |-> 0, updatedAt |-> 0]

ReadInit ==
    /\ \E n \in 0..MaxStored : \E texts \in [1..n -> StoredTexts] :
          /\ documents = [id \in 1..n |-> storedRow(id, texts[id])]
          /\ nextDocId = n + 1
          /\ files = [p \in 1..n |-> <<"%PDF">>]
    /\ downloadTokens = <<>>
    /\ now = 0
    /\ calls = [c \in Clients |-> IdleCall]
    /\ history = <<>>
    /\ last = NoResponse

ReadNext ==
    \/ \E db \in Faults : getAllDocuments(db)
    \/ \E id \in 1..(MaxStored + 1), db \in Faults : getDocumentById(id, db)
    \/ \E searchTags \in SearchTagLists, db \in Faults : searchDocumentsByTags(searchTags, db)

ReadSpec == ReadInit /\ [][ReadNext]_vars

\* The document operations a client can interleave: writes and reads of the
\* same store, storage and file system answering every call.
LifecycleNext ==
    \/ Tick
    \/ \E file \in Files, tags \in TagInputs : uploadDocument(file, tags, "none", NoFault)
    \/ \E id \in DocIds, tags \in TagInputs : updateDocument(id, tags, NoFault)
    \/ \E id \in DocIds : deleteDocument(id, NoFault, "ok", NoFault)
    \/ getAllDocuments(NoFault)
    \/ \E id \in DocIds : getDocumentById(id, NoFault)

LifecycleSpec == Init /\ [][LifecycleNext]_vars

\* The issuing of download links: up to MaxLinks token rows, storage and
\* file system answering every call.
LinkNext ==
    \/ Tick
    \/ \E file \in Files, tags \in TagInputs : uploadDocument(file, tags, "none", NoFault)
    \/ \E id \in DocIds : deleteDocument(id, NoFault, "ok", NoFault)
    \/ \E id \in DocIds, token \in TokenStrings :
            /\ Len(downloadTokens) < MaxLinks \/ tokenRows(token) # {}
            /\ generateDownloadLink(id, token, NoFault, NoFault)

LinkSpec == Init /\ [][LinkNext]_vars

\* The error translations applied to every error of their domains.
Operations == {"createDocument", "getAllDocuments", "getDocumentById", "updateDocument",
               "deleteDocument", "searchDocumentsByTags", "generateDownloadLink",
               "downloadDocumentByToken"}
Messages == {<<"db", "SQLITE_BUSY">>, <<"db", "no such table">>}
RepoErrors == [_tag : DbErrors \cup {"TokenNotFound", "TokenExpired"},
               token : TokenStrings, message : Messages]
ServiceErrors ==
    [_tag : {"DocumentNotFound"}, documentId : DocIds]
    \cup [_tag : {"FileNotFound"}, filePath : FileNames]
    \cup [_tag : {"InvalidFileType", "InvalidSearchTags"}, message : Messages]
    \cup [_tag : {"FileTooLarge"}, maxSize : {maxFileSize \div BytesPerMB},
          actualSize : FileSizes]
    \cup [_tag : {"DownloadTokenExpired", "DownloadTokenInvalid",
                  "DownloadTokenAlreadyUsed"}, token : TokenStrings]
    \cup [_tag : {"ServiceUnavailable"}, operation : Operations]
    \cup [_tag : {"ServiceUnknown"}, operation : Operations, message : Messages]

MapRepoError(repoError, operation) ==
    /\ last' = [op |-> "mapRepoErrorToServiceError",
                arg |-> [error |-> repoError, operation |-> operation],
                res |-> mapRepoErrorToServiceError(repoError, operation)]
    /\ UNCHANGED <<documents, nextDocId, files, downloadTokens, now, calls, history>>

MapServiceError(serviceError) ==
    /\ last' = [op |-> "mapServiceErrorToHttpError", arg |-> serviceError,
                res |-> [error |-> mapServiceErrorToHttpError(serviceError),
                         status |-> httpErrorToStatus(
                                        mapServiceErrorToHttpError(serviceError))]]
    /\ UNCHANGED <<documents, nextDocId, files, downloadTokens, now, calls, history>>

ErrorNext ==
    \/ \E repoError \in RepoErrors, operation \in Operations :
            MapRepoError(repoError, operation)
    \/ \E serviceError \in ServiceErrors : MapServiceError(serviceError)

ErrorSpec == Init /\ [][ErrorNext]_vars

\* ================================================================ claims
\* The row that bears a token string (token strings are unique).
rowOf(token) == CHOOSE i \in tokenRows(token) : TRUE

\* A download request for `token` arrives and is refused by the step that
\* looks the token up: no call in flight changes and a response is given.
GateRefuses(token) ==
    /\ calls' = calls
    /\ last'.op = "downloadDocumentByToken"
    /\ last'.arg = token

\* A download request of client c for `token` arrives and goes on to the
\* document lookup.
GatePasses(c, token) ==
    /\ calls[c].pc = "idle"
    /\ calls'[c].pc = "findById"
    /\ calls'[c].token = token

\* A step gives the response of a download request for `token`.
DownloadResponds(token) ==
    /\ last'.op = "downloadDocumentByToken"
    /\ last'.arg = token

\* C1: at-most-once consumption: whatever the interleaving of the download
\* requests for a token, at most one of them returns success.
C1_AtMostOnce == \A i \in DOMAIN history : history[i].delivered <= 1

\* C2: requests made one after another: the first download of an unexpired
\* token whose document and file are present succeeds, and every download
\* made after a successful one, before expires_at, fails with
\* DownloadTokenAlreadyUsed, rendered as 409.
C2_SequentialSingleUse ==
    [][\A token \in TokenStrings :
          (DownloadResponds(token) /\ tokenRows(token) # {}) =>
             LET row == downloadTokens[rowOf(token)]
             IN  /\ ( /\ history[row.id].delivered = 0
                      /\ GateRefuses(token) => now < row.expiresAt
                      /\ row.documentId \in DOMAIN documents
                      /\ documents[row.documentId].filePath \in DOMAIN files )
                    => (last'.res.tag = "ok" /\ last'.res.status = 200)
                 /\ (history[row.id].delivered > 0 /\ now < row.expiresAt)
                    => ( /\ last'.res.tag = "DownloadTokenAlreadyUsed"
                         /\ last'.res.status = 409 )]_vars

C2_Witness ==
    /\ last.op = "downloadDocumentByToken"
    /\ last.res.tag = "DownloadTokenAlreadyUsed"
    /\ last.res.status = 409
    /\ \E i \in DOMAIN history :
          downloadTokens[i].token = last.arg /\ history[i].delivered = 1

\* A token is valid for consumption: a row bears it, used_at is absent and
\* the current instant is strictly before expires_at.
ValidForConsumption(token) ==
    \E i \in DOMAIN downloadTokens :
        /\ downloadTokens[i].token = token
        /\ downloadTokens[i].usedAt = NULL
        /\ now < downloadTokens[i].expiresAt

\* C3: a download request passes the access gate if and only if its token
\* is valid for consumption; a refused one fails with DownloadTokenInvalid,
\* DownloadTokenExpired or DownloadTokenAlreadyUsed.
C3_ValidityGate ==
    [][\A token \in TokenStrings :
          /\ \A c \in Clients : GatePasses(c, token) => ValidForConsumption(token)
          /\ GateRefuses(token) =>
                /\ ~ValidForConsumption(token)
                /\ last'.res.tag \in {"DownloadTokenInvalid", "DownloadTokenExpired",
                                      "DownloadTokenAlreadyUsed"}]_vars

C3_Witness ==
    \E c \in Clients :
        /\ calls[c].pc = "findById"
        /\ now = calls[c].row.expiresAt - 1
        /\ downloadTokens[calls[c].row.id].usedAt = NULL

\* C4: a download request made at or after the token's expires_at fails with
\* DownloadTokenExpired, rendered as 404, whether or not the token was used,
\* and leaves the token rows unchanged.
C4_Expiry ==
    [][\A token \in TokenStrings :
          ( /\ GateRefuses(token) \/ \E c \in Clients : GatePasses(c, token)
            /\ tokenRows(token) # {}
            /\ downloadTokens[rowOf(token)].expiresAt <= now )
          => /\ GateRefuses(token)
             /\ last'.res.tag = "DownloadTokenExpired"
             /\ last'.res.status = 404
             /\ downloadTokens' = downloadTokens]_vars

C4_Witness ==
    /\ last.op = "downloadDocumentByToken"
    /\ last.res.tag = "DownloadTokenExpired"
    /\ \E i \in DOMAIN downloadTokens :
          /\ downloadTokens[i].token = last.arg
          /\ downloadTokens[i].usedAt # NULL
          /\ downloadTokens[i].expiresAt = now

\* C5: a download whose token is unexpired and unused and whose document
\* was deleted after the token was issued returns DocumentNotFound, rendered
\* as 404.
C5_TokenOutlivesDocument ==
    [][\A c \in Clients :
          ( /\ calls[c].pc = "findById"
            /\ calls'[c].pc = "idle"
            /\ history[calls[c].row.id].live
            /\ calls[c].row.documentId \notin DOMAIN documents )
          => (last'.res.tag = "DocumentNotFound" /\ last'.res.status = 404)]_vars

\* C6: generateDownloadLink for an id with no document record fails with
\* DocumentNotFound, and every token row references a document that existed
\* when the row was created.
C6_NoOrphanedTokens ==
    /\ (last.op = "generateDownloadLink" /\ last.arg \notin DOMAIN documents)
          => last.res.tag = "DocumentNotFound"
    /\ \A i \in DOMAIN history : history[i].live

\* C7: when markAsUsed fails, the download returns the success result it
\* returns when markAsUsed succeeds: the document and its storage path.
C7_MarkUsedBestEffort ==
    [][\A c \in Clients :
          (calls[c].pc = "markAsUsed" /\ calls'[c].pc = "idle")
          => /\ last'.op = "downloadDocumentByToken"
             /\ last'.res = [status |-> 200, tag |-> "ok", message |-> <<>>,
                             document |-> calls[c].doc,
                             filePath |-> calls[c].doc.filePath]]_vars

C7_Witness ==
    /\ last.op = "downloadDocumentByToken"
    /\ last.res.tag = "ok"
    /\ \E i \in DOMAIN downloadTokens :
          downloadTokens[i].token = last.arg /\ downloadTokens[i].usedAt = NULL

\* C8: deleteDocument of an existing record removes the record and returns
\* its pre-deletion snapshot with status 200 whether the file removal
\* succeeds, finds no file, or fails.
C8_FileRemovalBestEffort ==
    [][\A id \in DOMAIN documents, fs \in FsOutcomes :
          deleteDocument(id, NoFault, fs, NoFault)
          => /\ id \notin DOMAIN documents'
             /\ \A other \in DOMAIN documents \ {id} : documents'[other] = documents[other]
             /\ last'.res = [status |-> 200, tag |-> "ok", message |-> <<>>,
                             document |-> documents[id]]]_vars

C8_Witness ==
    /\ last.op = "deleteDocument"
    /\ last.res.tag = "ok"
    /\ last.res.document.filePath \in DOMAIN files

\* C9: deleteDocument for an id with no document record fails with
\* DocumentNotFound, rendered as 404, and changes nothing.
C9_DeleteAbsent ==
    [][\A id \in DocIds \ DOMAIN documents :
          deleteDocument(id, NoFault, "ok", NoFault)
          => /\ last'.res.tag = "DocumentNotFound"
             /\ last'.res.status = 404
             /\ UNCHANGED <<documents, files, downloadTokens>>]_vars

\* C10: updateDocument for an id with no document record fails with
\* DocumentNotFound, rendered as 404, with tags provided or omitted, and
\* leaves the store unchanged.
C10_UpdateAbsent ==
    [][\A id \in DocIds \ DOMAIN documents, tags \in TagInputs :
          updateDocument(id, tags, NoFault)
          => /\ last'.res.tag = "DocumentNotFound"
             /\ last'.res.status = 404
             /\ UNCHANGED <<documents, files, downloadTokens>>]_vars

\* The service error the table of the storage errors gives.
RepoErrorTable(e, operation) ==
    CASE e._tag = "TokenNotFound" -> [_tag |-> "DownloadTokenInvalid", token |-> e.token]
      [] e._tag = "TokenExpired" -> [_tag |-> "DownloadTokenExpired", token |-> e.token]
      [] e._tag = "DbConnectionError" -> [_tag |-> "ServiceUnavailable", operation |-> operation]
      [] e._tag = "DbTimeoutError" -> [_tag |-> "ServiceUnavailable", operation |-> operation]
      [] e._tag = "DbConstraintViolation" ->
            [_tag |-> "ServiceUnknown", operation |-> operation, message |-> e.message]
      [] e._tag = "DbUnknown" ->
            [_tag |-> "ServiceUnknown", operation |-> operation, message |-> e.message]

\* C17: mapRepoErrorToServiceError gives, for each of the six storage error
\* variants and every operation, the service error of the table: the token
\* errors with the same token, connection failure and timeout as
\* ServiceUnavailable(operation), constraint violation and unknown as
\* ServiceUnknown(operation, original message).
C17_RepoErrorMapping ==
    last.op = "mapRepoErrorToServiceError"
    => last.res = RepoErrorTable(last.arg.error, last.arg.operation)

C17_Witness ==
    /\ last.op = "mapRepoErrorToServiceError"
    /\ last.arg.error._tag = "DbTimeoutError"
    /\ last.res._tag = "ServiceUnavailable"
    /\ last.res.operation = "deleteDocument"

\* The status the table of the service errors gives.
StatusTable(tag) ==
    CASE tag \in {"DocumentNotFound", "FileNotFound", "DownloadTokenExpired",
                  "DownloadTokenInvalid"} -> 404
      [] tag \in {"InvalidFileType", "FileTooLarge", "InvalidSearchTags"} -> 400
      [] tag = "DownloadTokenAlreadyUsed" -> 409
      [] tag = "ServiceUnavailable" -> 503
      [] tag = "ServiceUnknown" -> 500

\* C18: httpErrorToStatus(mapServiceErrorToHttpError(e)) is defined for each
\* of the ten service error variants and is the status of the table.
C18_StatusMapping ==
    last.op = "mapServiceErrorToHttpError"
    => last.res.status = StatusTable(last.arg._tag)

C18_Witness ==
    /\ last.op = "mapServiceErrorToHttpError"
    /\ last.arg._tag = "DownloadTokenAlreadyUsed"
    /\ last.res.status = 409

\* C11: updateDocument(id) with the tags omitted, on an existing document,
\* leaves every stored field of the document unchanged, its tags and its
\* updatedAt included.
C11_PartialUpdateFrame ==
    [][\A id \in DOMAIN documents :
          updateDocument(id, NoTags, NoFault) => documents'[id] = documents[id]]_vars

\* C12: updateDocument(id, T) with the tags provided, on an existing
\* document, stores exactly T, sets updatedAt to the current instant, leaves
\* the other fields and the other documents unchanged and returns T; so
\* T = [] empties the stored and the returned tags.
C12_UpdateTags ==
    [][\A id \in DOMAIN documents, T \in TagLists :
          updateDocument(id, T, NoFault)
          => /\ DOMAIN documents' = DOMAIN documents
             /\ JSONparse(documents'[id].metadataTags) = T
             /\ documents'[id].updatedAt = now
             /\ documents'[id].updatedAt >= documents[id].updatedAt
             /\ documents'[id] = [documents[id] EXCEPT
                                     !.metadataTags = documents'[id].metadataTags,
                                     !.updatedAt = documents'[id].updatedAt]
             /\ \A other \in DOMAIN documents \ {id} : documents'[other] = documents[other]
             /\ last'.res.status = 200
             /\ last'.res.document = [documents'[id] EXCEPT !.metadataTags = T]]_vars

C12_Witness ==
    /\ last.op = "updateDocument"
    /\ last.res.tag = "ok"
    /\ last.res.document.metadataTags = <<>>
    /\ documents[last.arg].metadataTags = JSONstringify(<<>>)
    /\ documents[last.arg].updatedAt > documents[last.arg].createdAt

\* C13: createDocument of a file whose mime type is not application/pdf
\* fails with InvalidFileType, rendered as 400, and writes neither a file
\* nor a document row.
C13_InvalidFileType ==
    [][\A file \in Files, tags \in TagInputs :
          (file.type # "application/pdf" /\ uploadDocument(file, tags, "none", NoFault))
          => /\ last'.res.tag = "InvalidFileType"
             /\ last'.res.status = 400
             /\ files' = files
             /\ documents' = documents
             /\ nextDocId' = nextDocId]_vars

C13_Witness ==
    /\ last.op = "uploadDocument"
    /\ last.arg.type = "text/plain"
    /\ documents # <<>>
    /\ files # <<>>
    /\ last.res.tag = "InvalidFileType"
    /\ last.res.status = 400

\* C14: createDocument of a PDF larger than maxFileSize fails with
\* FileTooLarge, rendered as 400, reporting the configured maxFileSize as
\* the maximum and the file's size as the actual size.
C14_FileTooLarge ==
    [][\A file \in Files, tags \in TagInputs :
          ( /\ file.type = "application/pdf"
            /\ file.size > maxFileSize
            /\ uploadDocument(file, tags, "none", NoFault) )
          => /\ last'.res.tag = "FileTooLarge"
             /\ last'.res.status = 400
             /\ last'.res.message =
                   <<"File size", file.size, "exceeds maximum", maxFileSize>>]_vars

\* C15: searchDocumentsByTags with an empty tag list fails with
\* InvalidSearchTags, rendered as 400, whatever the document store would
\* answer: the store is not read.
C15_InvalidSearchTags ==
    [][\A db \in Faults :
          searchDocumentsByTags(<<>>, db)
          => /\ last'.res.tag = "InvalidSearchTags"
             /\ last'.res.status = 400]_vars

C15_Witness ==
    /\ last.op = "searchDocumentsByTags"
    /\ last.arg = <<>>
    /\ last.res.tag = "InvalidSearchTags"
    /\ documents # <<>>

\* The tags a document has: the list its stored text is the JSON text of,
\* none when the text is unset, unparseable or not a list.
storedTags(id) ==
    IF documents[id].metadataTags.kind = "list" THEN documents[id].metadataTags.tags
    ELSE <<>>

\* Some stored tag of the document equals or contains some query tag, case
\* folded on both sides.
Matches(id, Q) ==
    \E j \in DOMAIN storedTags(id), i \in DOMAIN Q :
        \/ toLowerCase(storedTags(id)[j]) = toLowerCase(Q[i])
        \/ includes(toLowerCase(storedTags(id)[j]), toLowerCase(Q[i]))

\* C16: for every non-empty query Q and every content of the store,
\* searchDocumentsByTags(Q) returns exactly the documents that match Q, each
\* once; a document whose tags are unset or unparseable is never returned.
C16_TagSearch ==
    [][\A Q \in SearchTagLists \ {<<>>} :
          searchDocumentsByTags(Q, NoFault)
          => /\ last'.res.tag = "ok"
             /\ {last'.res.documents[i].id : i \in DOMAIN last'.res.documents}
                   = {id \in DOMAIN documents : Matches(id, Q)}
             /\ \A i, j \in DOMAIN last'.res.documents :
                   last'.res.documents[i].id = last'.res.documents[j].id => i = j]_vars

\* C19: every controller operation answers with a 2xx result or with a
\* result whose status is 400, 404, 409, 503 or 500 and that bears a
\* message; it never throws, rejects or dies.
C19_ClosedOutcomeSet ==
    last.op # "none"
    => \/ last.res.status \in {200, 201}
       \/ last.res.status \in {400, 404, 409, 503, 500} /\ last.res.message # <<>>

\* The stored tags text is unset or unparseable.
UnsetOrUnparseable(text) == text.kind \in {"null", "empty", "text"}

\* C20: getAllDocuments and getDocumentById succeed whatever the stored tags
\* texts are, and return the empty list as the tags of a document whose
\* stored text is unset or unparseable.
C20_LenientTags ==
    [][/\ getAllDocuments(NoFault)
          => /\ last'.res.tag = "ok"
             /\ \A i \in DOMAIN findAll :
                   UnsetOrUnparseable(findAll[i].metadataTags)
                   => last'.res.documents[i].metadataTags = <<>>
       /\ \A id \in DOMAIN documents :
             getDocumentById(id, NoFault)
             => /\ last'.res.tag = "ok"
                /\ UnsetOrUnparseable(documents[id].metadataTags)
                   => last'.res.document.metadataTags = <<>>]_vars

\* C21: once deleteDocument(id) has succeeded (the id was handed out and its
\* row is gone; ids are never handed out again), every getDocumentById(id)
\* answers 404 and no getAllDocuments result holds a document with that id.
C21_DeletionObservable ==
    [][\A id \in (1..(nextDocId - 1)) \ DOMAIN documents :
          /\ getDocumentById(id, NoFault) => last'.res.status = 404
          /\ (getAllDocuments(NoFault) /\ last'.res.tag = "ok") =>
                \A i \in DOMAIN last'.res.documents : last'.res.documents[i].id # id]_vars

\* C22: storage-path invariant: the file of every document record is on disk
\* at the record's storage path and holds exactly the bytes that were
\* uploaded, whatever step of whatever operation failed before.
C22_StoragePath ==
    \A id \in DOMAIN documents :
        /\ documents[id].filePath \in DOMAIN files
        /\ \E file \in Files : /\ file.size = documents[id].fileSize
                               /\ files[documents[id].filePath] = file.bytes

\* A token row is in a terminal state: used, or the clock has reached its
\* expires_at.
Terminal(row, instant) == row.usedAt # NULL \/ row.expiresAt <= instant

\* C23: terminal token states: no step clears a used_at that is set, a
\* terminal row stays terminal, and a download request made for a token
\* whose row is terminal never goes on to the document lookup: it is
\* answered at once, and not with success.
C23_TerminalTokenStates ==
    [][\A i \in DOMAIN downloadTokens :
          LET row == downloadTokens[i]
          IN  /\ i \in DOMAIN downloadTokens'
              /\ downloadTokens'[i].token = row.token
              /\ row.usedAt # NULL => downloadTokens'[i].usedAt # NULL
              /\ Terminal(row, now) =>
                    /\ Terminal(downloadTokens'[i], now')
                    /\ \A c \in Clients : ~GatePasses(c, row.token)
                    /\ GateRefuses(row.token) => last'.res.tag # "ok"]_vars

C23_Witness ==
    /\ last.op = "downloadDocumentByToken"
    /\ last.res.tag = "DownloadTokenAlreadyUsed"
    /\ \E i \in DOMAIN downloadTokens :
          /\ downloadTokens[i].token = last.arg
          /\ downloadTokens[i].usedAt # NULL
          /\ now < downloadTokens[i].expiresAt

\* C24: failure precedence of downloadDocumentByToken: the checks are made in
\* the order token row absent (DownloadTokenInvalid), expires_at <= now
\* (DownloadTokenExpired), used_at set (DownloadTokenAlreadyUsed), document
\* absent (DocumentNotFound), file absent (FileNotFound), the first failing
\* one decides the failure, and used_at is written only by a request that
\* passed all five.
C24_FailurePrecedence ==
    [][\A token \in TokenStrings :
          /\ GateRefuses(token) =>
                last'.res.tag =
                    IF tokenRows(token) = {} THEN "DownloadTokenInvalid"
                    ELSE IF downloadTokens[rowOf(token)].expiresAt <= now
                    THEN "DownloadTokenExpired"
                    ELSE "DownloadTokenAlreadyUsed"
          /\ \A c \in Clients :
                /\ GatePasses(c, token) => ValidForConsumption(token)
                /\ (calls[c].pc = "findById" /\ calls'[c].pc = "idle") =>
                      /\ calls[c].row.documentId \notin DOMAIN documents
                      /\ last'.res.tag = "DocumentNotFound"
                /\ (calls[c].pc = "checkFileExists" /\ calls'[c].pc = "idle") =>
                      /\ calls[c].doc.filePath \notin DOMAIN files
                      /\ last'.res.tag = "FileNotFound"
          /\ downloadTokens' # downloadTokens /\ Len(downloadTokens') = Len(downloadTokens) =>
                \E c \in Clients : calls[c].pc = "markAsUsed" /\ calls'[c].pc = "idle"]_vars

\* C25: a failed consume does not burn the token: a download that ends with
\* FileNotFound, or with any other outcome than success, leaves every token
\* row as it was; when it had passed the token checks and expires_at is not
\* reached, the token is still valid for consumption, so the next request
\* for it passes them again.
C25_FailedConsumeKeepsToken ==
    [][\A token \in TokenStrings :
          (DownloadResponds(token) /\ last'.res.tag # "ok") =>
             /\ downloadTokens' = downloadTokens
             /\ \A c \in Clients :
                   (calls[c].pc # "idle" /\ calls'[c].pc = "idle"
                        /\ now < calls[c].row.expiresAt) =>
                      /\ downloadTokens'[calls[c].row.id].usedAt = NULL
                      /\ ValidForConsumption(token)']_vars

\* The file check of a request failed although the file is on disk, the
\* token is unused and unexpired: the request can be repeated.
C25_Witness ==
    /\ last.op = "downloadDocumentByToken"
    /\ last.res.tag = "FileNotFound"
    /\ \E i \in DOMAIN downloadTokens :
          /\ downloadTokens[i].token = last.arg
          /\ downloadTokens[i].usedAt = NULL
          /\ now < downloadTokens[i].expiresAt
          /\ downloadTokens[i].documentId \in DOMAIN documents
          /\ documents[downloadTokens[i].documentId].filePath \in DOMAIN files

\* C26: a successful generateDownloadLink(id) adds exactly one token row:
\* it bears the drawn token and documentId = id, its expires_at is the
\* issuing instant plus the configured lifetime and its used_at is absent;
\* the expiry returned is the stored expires_at and the URL returned is
\* /documents/download/ followed by the token; the documents and the token
\* rows that existed before are unchanged.
C26_LinkIssued ==
    [][\A id \in DocIds, token \in TokenStrings :
          (generateDownloadLink(id, token, NoFault, NoFault) /\ last'.res.tag = "ok") =>
             LET n == Len(downloadTokens)
             IN  /\ Len(downloadTokens') = n + 1
                 /\ SubSeq(downloadTokens', 1, n) = downloadTokens
                 /\ downloadTokens'[n + 1].token = token
                 /\ downloadTokens'[n + 1].documentId = id
                 /\ downloadTokens'[n + 1].expiresAt = now + downloadLinkExpiryMinutes
                 /\ downloadTokens'[n + 1].usedAt = NULL
                 /\ last'.link.token = token
                 /\ last'.link.expiresAt = downloadTokens'[n + 1].expiresAt
                 /\ last'.link.downloadUrl = <<"/documents/download/", token>>
                 /\ documents' = documents
                 /\ files' = files]_vars

\* A second link was issued, at a later instant than the first.
C26_Witness ==
    /\ last.op = "generateDownloadLink"
    /\ last.res.tag = "ok"
    /\ Len(downloadTokens) = 2
    /\ downloadTokens[2].token = last.link.token
    /\ downloadTokens[2].expiresAt > downloadTokens[1].expiresAt

\* C27: no cascade: deleteDocument(id) leaves the token table as it was,
\* the rows that reference id included, whatever the outcome of its calls.
C27_NoCascade ==
    [][last'.op = "deleteDocument" => downloadTokens' = downloadTokens]_vars

\* A document was deleted while a token row references it.
C27_Witness ==
    /\ last.op = "deleteDocument"
    /\ last.res.tag = "ok"
    /\ last.arg \notin DOMAIN documents
    /\ \E i \in DOMAIN downloadTokens : downloadTokens[i].documentId = last.arg

\* C28: the operation name is not leaked: a ServiceUnavailable error maps to
\* the same transport error, Unavailable with the same generic message and
\* the same status, as the ServiceUnavailable error of any other operation.
C28_OperationNotLeaked ==
    (last.op = "mapServiceErrorToHttpError" /\ last.arg._tag = "ServiceUnavailable") =>
        /\ last.res.error._tag = "Unavailable"
        /\ \A operation \in Operations :
              LET other == [_tag |-> "ServiceUnavailable", operation |-> operation]
              IN  /\ mapServiceErrorToHttpError(other) = last.res.error
                  /\ httpErrorToStatus(mapServiceErrorToHttpError(other)) = last.res.status

C28_Witness ==
    /\ last.op = "mapServiceErrorToHttpError"
    /\ last.arg._tag = "ServiceUnavailable"
    /\ last.arg.operation = "deleteDocument"
    /\ last.res.error.message = <<"Service temporarily unavailable">>

\* C29: token uniqueness: no two token rows bear the same token string, and
\* a generateDownloadLink whose drawn token a row already bears persists no
\* row and fails with an internal error (500).
C29_TokenUniqueness ==
    [][/\ \A i, j \in DOMAIN downloadTokens' :
             downloadTokens'[i].token = downloadTokens'[j].token => i = j
       /\ \A id \in DocIds, token \in TokenStrings :
             (tokenRows(token) # {} /\ generateDownloadLink(id, token, NoFault, NoFault)) =>
                /\ downloadTokens' = downloadTokens
                /\ last'.res.tag = "ServiceUnknown"
                /\ last'.res.status = 500]_vars

\* The token drawn for a link was borne by the one row of the table: the
\* link was refused and the table, not full, has no second row.
C29_Witness ==
    /\ last.op = "generateDownloadLink"
    /\ last.res.status = 500
    /\ Len(downloadTokens) = 1
    /\ last.arg \in DOMAIN documents

\* C30: createDocument is not compensated: when the file was written and the
\* metadata insert fails, the call fails with ServiceUnavailable or
\* ServiceUnknown, no document record is added and the written file stays
\* on disk; when a file-system step (ensure directory, write) fails, the
\* call fails with ServiceUnavailable and no document record is added.
C30_CreateNotCompensated ==
    [][last'.op = "uploadDocument" =>
          \A u \in Uploads, tags \in TagInputs :
             (validateFile(u[1]) = "ok" /\ uploadDocument(u[1], tags, u[2][1], u[2][2])) =>
                /\ u[2][1] # "none" =>
                      /\ last'.res.tag = "ServiceUnavailable"
                      /\ documents' = documents
                /\ (u[2][1] = "none" /\ u[2][2] # NoFault) =>
                      /\ last'.res.tag \in {"ServiceUnavailable", "ServiceUnknown"}
                      /\ last'.res.tag =
                            mapRepoErrorToServiceError(RepoError(u[2][2], ""),
                                                       "createDocument")._tag
                      /\ documents' = documents
                      /\ nextDocId' = nextDocId
                      /\ generateFilePath \notin DOMAIN files
                      /\ generateFilePath \in DOMAIN files'
                      /\ files'[generateFilePath] = u[1].bytes
                      /\ \A p \in DOMAIN files : files'[p] = files[p]]_vars

\* An upload failed at the metadata insert: its file is on disk and no
\* document record names it.
C30_Witness ==
    /\ last.op = "uploadDocument"
    /\ last.res.tag = "ServiceUnknown"
    /\ \E p \in DOMAIN files :
          /\ files[p] = last.arg.bytes
          /\ \A id \in DOMAIN documents : documents[id].filePath # p

====
